---- MODULE Spec2Model ----
(***************************************************************************)
(* Model of wamp/wsjoiner.py: WAMPSessionJoiner.  Caller threads issue     *)
(* call / register / unregister / subscribe / unsubscribe / publish, one   *)
(* background thread (wait) receives messages and routes them through      *)
(* process_incoming_message.                                               *)
(***************************************************************************)
EXTENDS Integers, FiniteSets, Sequences, Bags, TLC

\* ---------------------------------------------------------------- bounds
MaxOps == 2          \* operations the caller threads issue in one session
MaxResId == 2        \* server-assigned registration / subscription ids
MaxInvoke == 1       \* Invocation and Event messages delivered to endpoints

Callers == {"t1", "t2"}
ReqIds == 1..MaxOps
ResIds == 1..MaxResId
Endpoints == {"f", "g"}

VARIABLES
    nextId,               \* self.idgen: last id handed out
    wsOpen,               \* self.ws: transport still connected
    reader,               \* thread running wait(): "running" | "exited" | "crashed"
    ignored,              \* the reader has passed over an Error message
    call_requests,        \* request id -> future
    register_requests,    \* request id -> RegisterRequest(future, endpoint)
    registrations,        \* registration id -> endpoint
    unregister_requests,  \* request id -> UnregisterRequest(future, registration_id)
    publish_requests,     \* request id -> future
    subscribe_requests,   \* request id -> SubscribeRequest(future, endpoint)
    subscriptions,        \* subscription id -> endpoint
    unsubscribe_requests, \* request id -> UnsubscribeRequest(future, subscription_id)
    future,               \* the Future created by each caller's current operation
    pc,                   \* position of each caller thread inside its operation
    op,                   \* operation each caller is executing
    rid,                  \* request id of the message the caller built
    arg,                  \* argument of the operation (endpoint, resource id, options)
    result,               \* what the operation returned or raised to the caller
    startedClosed,        \* the transport was closed when the caller invoked its operation
    sent,                 \* bag of messages handed to ws.send
    invoked               \* endpoint -> number of times the reader invoked it

rpcTables == <<call_requests, register_requests, registrations, unregister_requests>>
pubsubTables == <<publish_requests, subscribe_requests, subscriptions, unsubscribe_requests>>
callerVars == <<future, pc, op, rid, arg, result, startedClosed>>
vars == <<nextId, wsOpen, reader, ignored, rpcTables, pubsubTables, callerVars, sent, invoked>>

\* ------------------------------------------------------------ dict helpers
EmptyDict == <<>>

DictSet(d, k, v) == [x \in DOMAIN d \cup {k} |-> IF x = k THEN v ELSE d[x]]

DictDel(d, k) == [x \in DOMAIN d \ {k} |-> d[x]]

\* dict.get(key, default) on a dict kept as a set of <<key, value>> items
DictGet(items, k, default) ==
    IF \E p \in items : p[1] = k
    THEN (CHOOSE p \in items : p[1] = k)[2]
    ELSE default

\* ------------------------------------------------------------ futures
NoFuture == [state |-> "none"]
PendingFuture == [state |-> "pending"]
ResolvedFuture(v) == [state |-> "done", value |-> v]

\* ------------------------------------------------------------ values
NoArg == [type |-> "none"]
EndpointArg(e) == [type |-> "endpoint", endpoint |-> e]
ResourceArg(r) == [type |-> "resource", id |-> r]
OptionsArg(o) == [type |-> "options", options |-> o]

\* options of publish: None, {}, {"acknowledge": True}, {"acknowledge": False}
NoneOptions == [isNone |-> TRUE, items |-> {}]
DictOptions(s) == [isNone |-> FALSE, items |-> s]
OptionValues ==
    {NoneOptions, DictOptions({}), DictOptions({<<"acknowledge", TRUE>>}),
     DictOptions({<<"acknowledge", FALSE>>})}

NoResult == [type |-> "none"]
Returned(v) == [type |-> "returned", value |-> v]
Raised(e) == [type |-> "raised", error |-> e]

NoneValue == [kind |-> "None"]
Registration(r) == [kind |-> "Registration", registration_id |-> r]
Subscription(s) == [kind |-> "Subscription", subscription_id |-> s]

\* messages
Request(k, q) == [kind |-> k, request_id |-> q]
Yield(e) == [kind |-> "Yield", endpoint |-> e]
RegisteredMsg(q, r) == [kind |-> "Registered", request_id |-> q, registration_id |-> r]
UnRegisteredMsg(q) == [kind |-> "UnRegistered", request_id |-> q]
ResultMsg(q) == [kind |-> "Result", request_id |-> q]
InvocationMsg(r) == [kind |-> "Invocation", registration_id |-> r]
SubscribedMsg(q, s) == [kind |-> "Subscribed", request_id |-> q, subscription_id |-> s]
UnSubscribedMsg(q) == [kind |-> "UnSubscribed", request_id |-> q]
PublishedMsg(q) == [kind |-> "Published", request_id |-> q]
EventMsg(s) == [kind |-> "Event", subscription_id |-> s]
ErrorMsg(q) == [kind |-> "Error", request_id |-> q]
OtherMsg == [kind |-> "Other"]

Init ==
    /\ nextId = 0
    /\ wsOpen = TRUE
    /\ reader = "running"
    /\ ignored = FALSE
    /\ call_requests = EmptyDict
    /\ register_requests = EmptyDict
    /\ registrations = EmptyDict
    /\ unregister_requests = EmptyDict
    /\ publish_requests = EmptyDict
    /\ subscribe_requests = EmptyDict
    /\ subscriptions = EmptyDict
    /\ unsubscribe_requests = EmptyDict
    /\ future = [c \in Callers |-> NoFuture]
    /\ pc = [c \in Callers |-> "idle"]
    /\ op = [c \in Callers |-> "none"]
    /\ rid = [c \in Callers |-> 0]
    /\ arg = [c \in Callers |-> NoArg]
    /\ result = [c \in Callers |-> NoResult]
    /\ startedClosed = [c \in Callers |-> FALSE]
    /\ sent = EmptyBag
    /\ invoked = [e \in Endpoints |-> 0]

\* ================================================================ callers
\* A thread runs one operation after another.  An operation takes three
\* steps: it builds the request with a fresh id and records its pending
\* entry, it hands the request to ws.send, and it waits on its Future.  The
\* table entries name the Future by the thread that created it.

\* the id the generator hands out next: self.idgen.next()
NextId == nextId + 1

\* Build with a generator of its own for every operation instead of the one
\* made at construction: every operation obtains the first id again
BuildOwnGenerator(c, o, a, waits) ==
    /\ pc[c] \in {"idle", "done"}
    /\ nextId < MaxOps
    /\ nextId' = NextId
    /\ pc' = [pc EXCEPT ![c] = "recorded"]
    /\ op' = [op EXCEPT ![c] = o]
    /\ rid' = [rid EXCEPT ![c] = 1]
    /\ arg' = [arg EXCEPT ![c] = a]
    /\ startedClosed' = [startedClosed EXCEPT ![c] = ~wsOpen]
    /\ future' = [future EXCEPT ![c] = IF waits THEN PendingFuture ELSE NoFuture]
    /\ result' = [result EXCEPT ![c] = NoResult]
    /\ UNCHANGED <<wsOpen, reader, ignored, sent, invoked>>

\* x = messages.X(self.idgen.next(), ...); data = self.session.send_message(x);
\* f = Future() when the operation waits.  The operation adds its pending entry.
Build(c, o, a, waits) ==
    /\ pc[c] \in {"idle", "done"}
    /\ nextId < MaxOps
    /\ nextId' = NextId
    /\ pc' = [pc EXCEPT ![c] = "recorded"]
    /\ op' = [op EXCEPT ![c] = o]
    /\ rid' = [rid EXCEPT ![c] = NextId]
    /\ arg' = [arg EXCEPT ![c] = a]
    /\ startedClosed' = [startedClosed EXCEPT ![c] = ~wsOpen]
    /\ future' = [future EXCEPT ![c] = IF waits THEN PendingFuture ELSE NoFuture]
    /\ result' = [result EXCEPT ![c] = NoResult]
    /\ UNCHANGED <<wsOpen, reader, ignored, sent, invoked>>

\* self.ws.send(data): raises ConnectionClosed once the transport is closed;
\* blocks = the caller goes on to f.result(), otherwise it returns None
WsSend(c, m, blocks) ==
    /\ pc[c] = "recorded"
    /\ IF wsOpen
       THEN /\ sent' = sent (+) SetToBag({m})
            /\ pc' = [pc EXCEPT ![c] = IF blocks THEN "waiting" ELSE "done"]
            /\ result' = [result EXCEPT ![c] = IF blocks THEN @ ELSE Returned(NoneValue)]
       ELSE /\ sent' = sent
            /\ pc' = [pc EXCEPT ![c] = "done"]
            /\ result' = [result EXCEPT ![c] = Raised("ConnectionClosed")]
    /\ UNCHANGED <<nextId, wsOpen, reader, ignored, rpcTables, pubsubTables,
                   future, op, rid, arg, startedClosed, invoked>>

\* f.result(): blocks until the reader has set the Future's result; call,
\* register, subscribe and publish return it, unregister and unsubscribe drop it
FutureResult(c) ==
    /\ pc[c] = "waiting"
    /\ future[c].state = "done"
    /\ pc' = [pc EXCEPT ![c] = "done"]
    /\ result' = [result EXCEPT ![c] =
           IF op[c] \in {"unregister", "unsubscribe"}
           THEN Returned(NoneValue)
           ELSE Returned(future[c].value)]
    /\ UNCHANGED <<nextId, wsOpen, reader, ignored, rpcTables, pubsubTables,
                   future, op, rid, arg, startedClosed, sent, invoked>>

\* ---- call
\* a call whose entry is not yet in call_requests when the request is sent
CallStartUnrecorded(c) ==
    /\ Build(c, "call", NoArg, TRUE)
    /\ UNCHANGED <<rpcTables, pubsubTables>>

CallStart(c) ==
    /\ Build(c, "call", NoArg, TRUE)
    /\ call_requests' = DictSet(call_requests, NextId, c)
    /\ UNCHANGED <<register_requests, registrations, unregister_requests, pubsubTables>>

CallSend(c) == op[c] = "call" /\ WsSend(c, Request("Call", rid[c]), TRUE)

\* ---- register
RegisterStart(c, e) ==
    /\ Build(c, "register", EndpointArg(e), TRUE)
    /\ register_requests' = DictSet(register_requests, NextId, [future |-> c, endpoint |-> e])
    /\ UNCHANGED <<call_requests, registrations, unregister_requests, pubsubTables>>

RegisterSend(c) == op[c] = "register" /\ WsSend(c, Request("Register", rid[c]), TRUE)

\* ---- unregister
UnregisterStart(c, r) ==
    /\ Build(c, "unregister", ResourceArg(r), TRUE)
    /\ unregister_requests' =
           DictSet(unregister_requests, NextId, [future |-> c, registration_id |-> r])
    /\ UNCHANGED <<call_requests, register_requests, registrations, pubsubTables>>

UnregisterSend(c) == op[c] = "unregister" /\ WsSend(c, Request("UnRegister", rid[c]), TRUE)

\* ---- subscribe
SubscribeStart(c, e) ==
    /\ Build(c, "subscribe", EndpointArg(e), TRUE)
    /\ subscribe_requests' = DictSet(subscribe_requests, NextId, [future |-> c, endpoint |-> e])
    /\ UNCHANGED <<rpcTables, publish_requests, subscriptions, unsubscribe_requests>>

SubscribeSend(c) == op[c] = "subscribe" /\ WsSend(c, Request("Subscribe", rid[c]), TRUE)

\* ---- unsubscribe
UnsubscribeStart(c, s) ==
    /\ Build(c, "unsubscribe", ResourceArg(s), TRUE)
    /\ unsubscribe_requests' =
           DictSet(unsubscribe_requests, NextId, [future |-> c, subscription_id |-> s])
    /\ UNCHANGED <<rpcTables, publish_requests, subscribe_requests, subscriptions>>

UnsubscribeSend(c) == op[c] = "unsubscribe" /\ WsSend(c, Request("UnSubscribe", rid[c]), TRUE)

\* ---- publish
\* options is not None and options.get("acknowledge", True)
WantsAck(o) == ~o.isNone /\ DictGet(o.items, "acknowledge", TRUE)

\* the request, the test of the if and, when it passes, the Future and its entry
PublishStart(c, o) ==
    /\ Build(c, "publish", OptionsArg(o), WantsAck(o))
    /\ publish_requests' =
           IF WantsAck(o) THEN DictSet(publish_requests, NextId, c) ELSE publish_requests
    /\ UNCHANGED <<rpcTables, subscribe_requests, subscriptions, unsubscribe_requests>>

PublishSend(c) ==
    op[c] = "publish" /\ WsSend(c, Request("Publish", rid[c]), WantsAck(arg[c].options))

\* ================================================================= reader
\* wait(): data = self.ws.receive() returned a frame, session.receive decoded it
Receives ==
    /\ reader = "running"
    /\ wsOpen

\* the request ids the peer has seen: those of the requests handed to ws.send
SentIds == {m.request_id : m \in {x \in BagToSet(sent) : x.kind # "Yield"}}

\* a frame that answers request id q: the peer names only ids it was sent
ReceivesAnswer(q) == Receives /\ q \in SentIds

\* an exception leaves process_incoming_message and wait(): the thread ends
Crash ==
    /\ reader' = "crashed"
    /\ UNCHANGED <<future, sent, invoked>>

RECURSIVE Sum(_, _)
Sum(f, S) == IF S = {} THEN 0 ELSE LET x == CHOOSE x \in S : TRUE IN f[x] + Sum(f, S \ {x})

\* endpoint calls made so far
Invocations == Sum(invoked, Endpoints)

\* Future.set_result(v)
SetResult(c, v) == [future EXCEPT ![c] = ResolvedFuture(v)]

\* Registered
RecvRegistered(q, r) ==
    /\ ReceivesAnswer(q)
    /\ IF q \in DOMAIN register_requests
       THEN /\ register_requests' = DictDel(register_requests, q)
            /\ registrations' = DictSet(registrations, r, register_requests[q].endpoint)
            /\ future' = SetResult(register_requests[q].future, Registration(r))
            /\ UNCHANGED <<reader, sent, invoked>>
       ELSE Crash /\ UNCHANGED <<register_requests, registrations>>
    /\ UNCHANGED <<nextId, wsOpen, ignored, call_requests, unregister_requests, pubsubTables,
                   pc, op, rid, arg, result, startedClosed>>

\* an UnRegistered that pops the request and keeps the registration
RecvUnRegisteredKeeps(q) ==
    /\ ReceivesAnswer(q)
    /\ IF q \in DOMAIN unregister_requests
       THEN /\ unregister_requests' = DictDel(unregister_requests, q)
            /\ UNCHANGED <<registrations, reader, future, sent, invoked>>
       ELSE Crash /\ UNCHANGED <<unregister_requests, registrations>>
    /\ UNCHANGED <<nextId, wsOpen, ignored, call_requests, register_requests, pubsubTables,
                   pc, op, rid, arg, result, startedClosed>>

\* UnRegistered: the request is popped, the registration deleted; the Future
\* of the request is left as it is
RecvUnRegistered(q) ==
    /\ ReceivesAnswer(q)
    /\ IF q \in DOMAIN unregister_requests
       THEN /\ unregister_requests' = DictDel(unregister_requests, q)
            /\ IF unregister_requests[q].registration_id \in DOMAIN registrations
               THEN /\ registrations' =
                           DictDel(registrations, unregister_requests[q].registration_id)
                    /\ UNCHANGED <<reader, future, sent, invoked>>
               ELSE Crash /\ UNCHANGED registrations
       ELSE Crash /\ UNCHANGED <<unregister_requests, registrations>>
    /\ UNCHANGED <<nextId, wsOpen, ignored, call_requests, register_requests, pubsubTables,
                   pc, op, rid, arg, result, startedClosed>>

\* a Result that resolves the oldest pending call instead of the one it names
RecvResultOldest(q) ==
    /\ ReceivesAnswer(q)
    /\ IF q \in DOMAIN call_requests
       THEN LET k == CHOOSE k \in DOMAIN call_requests :
                         \A j \in DOMAIN call_requests : k <= j
            IN  /\ call_requests' = DictDel(call_requests, k)
                /\ future' = SetResult(call_requests[k], ResultMsg(q))
                /\ UNCHANGED <<reader, sent, invoked>>
       ELSE Crash /\ UNCHANGED call_requests
    /\ UNCHANGED <<nextId, wsOpen, ignored, register_requests, registrations,
                   unregister_requests, pubsubTables, pc, op, rid, arg, result, startedClosed>>

\* a Result whose request id is absent is dropped without an error
\* (call_requests.pop(id, None))
RecvResultSilent(q) ==
    /\ ReceivesAnswer(q)
    /\ IF q \in DOMAIN call_requests
       THEN /\ call_requests' = DictDel(call_requests, q)
            /\ future' = SetResult(call_requests[q], ResultMsg(q))
            /\ UNCHANGED <<ignored, reader, sent, invoked>>
       ELSE /\ ignored' = TRUE
            /\ UNCHANGED <<call_requests, future, reader, sent, invoked>>
    /\ UNCHANGED <<nextId, wsOpen, register_requests, registrations, unregister_requests,
                   pubsubTables, pc, op, rid, arg, result, startedClosed>>

\* Result
RecvResult(q) ==
    /\ ReceivesAnswer(q)
    /\ IF q \in DOMAIN call_requests
       THEN /\ call_requests' = DictDel(call_requests, q)
            /\ future' = SetResult(call_requests[q], ResultMsg(q))
            /\ UNCHANGED <<reader, sent, invoked>>
       ELSE Crash /\ UNCHANGED call_requests
    /\ UNCHANGED <<nextId, wsOpen, ignored, register_requests, registrations, unregister_requests,
                   pubsubTables, pc, op, rid, arg, result, startedClosed>>

\* an Invocation whose Yield is never handed to the transport
RecvInvocationNoYield(r, outcome) ==
    /\ Receives
    /\ IF r \in DOMAIN registrations
       THEN /\ Invocations < MaxInvoke
            /\ invoked' = [invoked EXCEPT ![registrations[r]] = @ + 1]
            /\ reader' = IF outcome = "return" THEN reader ELSE "crashed"
            /\ UNCHANGED <<future, sent>>
       ELSE Crash
    /\ UNCHANGED <<nextId, wsOpen, ignored, rpcTables, pubsubTables,
                   pc, op, rid, arg, result, startedClosed>>

\* Invocation: the endpoint returns a Yield (sent on the transport) or raises
RecvInvocation(r, outcome) ==
    /\ Receives
    /\ IF r \in DOMAIN registrations
       THEN /\ Invocations < MaxInvoke
            /\ invoked' = [invoked EXCEPT ![registrations[r]] = @ + 1]
            /\ IF outcome = "return"
               THEN /\ sent' = sent (+) SetToBag({Yield(registrations[r])})
                    /\ UNCHANGED reader
               ELSE /\ reader' = "crashed"
                    /\ UNCHANGED sent
            /\ UNCHANGED future
       ELSE Crash
    /\ UNCHANGED <<nextId, wsOpen, ignored, rpcTables, pubsubTables, pc, op, rid, arg, result, startedClosed>>

\* a Subscribed that installs the endpoint under the request id
\* (self.subscriptions[msg.request_id] = request.endpoint)
RecvSubscribedByRequestId(q, s) ==
    /\ ReceivesAnswer(q)
    /\ IF q \in DOMAIN subscribe_requests
       THEN /\ subscribe_requests' = DictDel(subscribe_requests, q)
            /\ subscriptions' = DictSet(subscriptions, q, subscribe_requests[q].endpoint)
            /\ future' = SetResult(subscribe_requests[q].future, Subscription(s))
            /\ UNCHANGED <<reader, sent, invoked>>
       ELSE Crash /\ UNCHANGED <<subscribe_requests, subscriptions>>
    /\ UNCHANGED <<nextId, wsOpen, ignored, rpcTables, publish_requests, unsubscribe_requests,
                   pc, op, rid, arg, result, startedClosed>>

\* a Subscribed that keeps the endpoint already installed under the id
\* (self.subscriptions.setdefault(msg.subscription_id, request.endpoint))
RecvSubscribedKeepsFirst(q, s) ==
    /\ ReceivesAnswer(q)
    /\ IF q \in DOMAIN subscribe_requests
       THEN /\ subscribe_requests' = DictDel(subscribe_requests, q)
            /\ subscriptions' =
                   IF s \in DOMAIN subscriptions THEN subscriptions
                   ELSE DictSet(subscriptions, s, subscribe_requests[q].endpoint)
            /\ future' = SetResult(subscribe_requests[q].future, Subscription(s))
            /\ UNCHANGED <<reader, sent, invoked>>
       ELSE Crash /\ UNCHANGED <<subscribe_requests, subscriptions>>
    /\ UNCHANGED <<nextId, wsOpen, ignored, rpcTables, publish_requests, unsubscribe_requests,
                   pc, op, rid, arg, result, startedClosed>>

\* Subscribed
RecvSubscribed(q, s) ==
    /\ ReceivesAnswer(q)
    /\ IF q \in DOMAIN subscribe_requests
       THEN /\ subscribe_requests' = DictDel(subscribe_requests, q)
            /\ subscriptions' = DictSet(subscriptions, s, subscribe_requests[q].endpoint)
            /\ future' = SetResult(subscribe_requests[q].future, Subscription(s))
            /\ UNCHANGED <<reader, sent, invoked>>
       ELSE Crash /\ UNCHANGED <<subscribe_requests, subscriptions>>
    /\ UNCHANGED <<nextId, wsOpen, ignored, rpcTables, publish_requests, unsubscribe_requests,
                   pc, op, rid, arg, result, startedClosed>>

\* UnSubscribed
RecvUnSubscribed(q) ==
    /\ ReceivesAnswer(q)
    /\ IF q \in DOMAIN unsubscribe_requests
       THEN /\ unsubscribe_requests' = DictDel(unsubscribe_requests, q)
            /\ IF unsubscribe_requests[q].subscription_id \in DOMAIN subscriptions
               THEN /\ subscriptions' =
                           DictDel(subscriptions, unsubscribe_requests[q].subscription_id)
                    /\ future' = SetResult(unsubscribe_requests[q].future, UnSubscribedMsg(q))
                    /\ UNCHANGED <<reader, sent, invoked>>
               ELSE Crash /\ UNCHANGED subscriptions
       ELSE Crash /\ UNCHANGED <<unsubscribe_requests, subscriptions>>
    /\ UNCHANGED <<nextId, wsOpen, ignored, rpcTables, publish_requests, subscribe_requests,
                   pc, op, rid, arg, result, startedClosed>>

\* a Published that resolves every acknowledged publish that is pending
RecvPublishedAll(q) ==
    /\ ReceivesAnswer(q)
    /\ IF q \in DOMAIN publish_requests
       THEN /\ publish_requests' = EmptyDict
            /\ future' = [c \in Callers |->
                             IF \E k \in DOMAIN publish_requests : publish_requests[k] = c
                             THEN ResolvedFuture(PublishedMsg(q))
                             ELSE future[c]]
            /\ UNCHANGED <<reader, sent, invoked>>
       ELSE Crash /\ UNCHANGED publish_requests
    /\ UNCHANGED <<nextId, wsOpen, ignored, rpcTables, subscribe_requests, subscriptions,
                   unsubscribe_requests, pc, op, rid, arg, result, startedClosed>>

\* Published
RecvPublished(q) ==
    /\ ReceivesAnswer(q)
    /\ IF q \in DOMAIN publish_requests
       THEN /\ publish_requests' = DictDel(publish_requests, q)
            /\ future' = SetResult(publish_requests[q], PublishedMsg(q))
            /\ UNCHANGED <<reader, sent, invoked>>
       ELSE Crash /\ UNCHANGED publish_requests
    /\ UNCHANGED <<nextId, wsOpen, ignored, rpcTables, subscribe_requests, subscriptions,
                   unsubscribe_requests, pc, op, rid, arg, result, startedClosed>>

\* Event: the endpoint returns nothing or raises
RecvEvent(s, outcome) ==
    /\ Receives
    /\ IF s \in DOMAIN subscriptions
       THEN /\ Invocations < MaxInvoke
            /\ invoked' = [invoked EXCEPT ![subscriptions[s]] = @ + 1]
            /\ reader' = IF outcome = "return" THEN reader ELSE "crashed"
            /\ UNCHANGED <<future, sent>>
       ELSE Crash
    /\ UNCHANGED <<nextId, wsOpen, ignored, rpcTables, pubsubTables, pc, op, rid, arg, result, startedClosed>>

\* Error: pass
RecvError(q) ==
    /\ ReceivesAnswer(q)
    /\ ignored' = TRUE
    /\ UNCHANGED <<nextId, wsOpen, reader, rpcTables, pubsubTables, callerVars, sent, invoked>>

\* any other message: raise ValueError("received unknown message")
RecvOther ==
    /\ Receives
    /\ Crash
    /\ UNCHANGED <<nextId, wsOpen, ignored, rpcTables, pubsubTables, pc, op, rid, arg, result, startedClosed>>

\* self.session.receive(data) raises on a frame it cannot decode: the call is
\* outside the try block of wait()
RecvUndecodable ==
    /\ Receives
    /\ Crash
    /\ UNCHANGED <<nextId, wsOpen, ignored, rpcTables, pubsubTables, pc, op, rid, arg, result, startedClosed>>

\* The transport is closed (by the peer or by a network failure).  A running
\* reader is blocked in self.ws.receive(), which raises: except Exception: break
TransportClose ==
    /\ wsOpen
    /\ wsOpen' = FALSE
    /\ reader' = IF reader = "running" THEN "exited" ELSE reader
    /\ UNCHANGED <<nextId, ignored, rpcTables, pubsubTables, callerVars, sent, invoked>>

\* ============================================ self.ws.send as two steps
\* The thread calls self.ws.send(data): the frame is handed to the transport
\* and the thread is inside send until the call returns.  Nothing in the class
\* is acquired before the call.
WsSendEnter(c, m) ==
    /\ pc[c] = "recorded"
    /\ IF wsOpen
       THEN /\ sent' = sent (+) SetToBag({m})
            /\ pc' = [pc EXCEPT ![c] = "sending"]
            /\ UNCHANGED result
       ELSE /\ sent' = sent
            /\ pc' = [pc EXCEPT ![c] = "done"]
            /\ result' = [result EXCEPT ![c] = Raised("ConnectionClosed")]
    /\ UNCHANGED <<nextId, wsOpen, reader, ignored, rpcTables, pubsubTables,
                   future, op, rid, arg, startedClosed, invoked>>

\* self.ws.send(data) returns to the caller, which goes on to f.result() when
\* blocks, and returns None otherwise
WsSendReturn(c, blocks) ==
    /\ pc[c] = "sending"
    /\ pc' = [pc EXCEPT ![c] = IF blocks THEN "waiting" ELSE "done"]
    /\ result' = [result EXCEPT ![c] = IF blocks THEN @ ELSE Returned(NoneValue)]
    /\ UNCHANGED <<nextId, wsOpen, reader, ignored, rpcTables, pubsubTables,
                   future, op, rid, arg, startedClosed, sent, invoked>>

CallSendEnter(c) == op[c] = "call" /\ WsSendEnter(c, Request("Call", rid[c]))

CallSendReturn(c) == op[c] = "call" /\ WsSendReturn(c, TRUE)

RegisterSendEnter(c) == op[c] = "register" /\ WsSendEnter(c, Request("Register", rid[c]))

RegisterSendReturn(c) == op[c] = "register" /\ WsSendReturn(c, TRUE)

PublishSendEnter(c) == op[c] = "publish" /\ WsSendEnter(c, Request("Publish", rid[c]))

PublishSendReturn(c) == op[c] = "publish" /\ WsSendReturn(c, WantsAck(arg[c].options))

\* Invocation: the endpoint has returned its Yield and the reader thread
\* calls self.ws.send(data)
InvocationSendEnter(r) ==
    /\ Receives
    /\ r \in DOMAIN registrations
    /\ Invocations < MaxInvoke
    /\ invoked' = [invoked EXCEPT ![registrations[r]] = @ + 1]
    /\ sent' = sent (+) SetToBag({Yield(registrations[r])})
    /\ reader' = "sending"
    /\ UNCHANGED <<nextId, wsOpen, ignored, rpcTables, pubsubTables, callerVars>>

\* the reader's self.ws.send(data) returns: back to the loop of wait()
InvocationSendReturn ==
    /\ reader = "sending"
    /\ reader' = "running"
    /\ UNCHANGED <<nextId, wsOpen, ignored, rpcTables, pubsubTables, callerVars, sent, invoked>>

\* ========================================================= specifications
Outcomes == {"return", "raise"}

CallerRpc ==
    \E c \in Callers :
        \/ CallStart(c) \/ CallSend(c)
        \/ \E e \in Endpoints : RegisterStart(c, e)
        \/ RegisterSend(c)
        \/ \E r \in ResIds : UnregisterStart(c, r)
        \/ UnregisterSend(c)

CallerPubSub ==
    \E c \in Callers :
        \/ \E e \in Endpoints : SubscribeStart(c, e)
        \/ SubscribeSend(c)
        \/ \E s \in ResIds : UnsubscribeStart(c, s)
        \/ UnsubscribeSend(c)
        \/ \E o \in OptionValues : PublishStart(c, o)
        \/ PublishSend(c)

ReaderRpc ==
    \/ \E q \in ReqIds, r \in ResIds : RecvRegistered(q, r)
    \/ \E q \in ReqIds : RecvUnRegistered(q)
    \/ \E q \in ReqIds : RecvResult(q)
    \/ \E r \in ResIds, o \in Outcomes : RecvInvocation(r, o)

ReaderPubSub ==
    \/ \E q \in ReqIds, s \in ResIds : RecvSubscribed(q, s)
    \/ \E q \in ReqIds : RecvUnSubscribed(q)
    \/ \E q \in ReqIds : RecvPublished(q)
    \/ \E s \in ResIds, o \in Outcomes : RecvEvent(s, o)

Common ==
    \/ \E c \in Callers : FutureResult(c)
    \/ \E q \in ReqIds : RecvError(q)
    \/ RecvOther
    \/ RecvUndecodable
    \/ TransportClose

Next == CallerRpc \/ CallerPubSub \/ ReaderRpc \/ ReaderPubSub \/ Common

Spec == Init /\ [][Next]_vars

\* the RPC half alone: call, register, unregister and their messages
NextRpc == CallerRpc \/ ReaderRpc \/ Common

SpecRpc == Init /\ [][NextRpc]_vars

\* the answers to requests: the six messages that carry a request id of this session
Answers ==
    \/ \E q \in ReqIds, r \in ResIds : RecvRegistered(q, r)
    \/ \E q \in ReqIds : RecvUnRegistered(q)
    \/ \E q \in ReqIds : RecvResult(q)
    \/ \E q \in ReqIds, s \in ResIds : RecvSubscribed(q, s)
    \/ \E q \in ReqIds : RecvUnSubscribed(q)
    \/ \E q \in ReqIds : RecvPublished(q)

\* the six operations and their answers on an open transport
NextAnswers ==
    \/ CallerRpc
    \/ CallerPubSub
    \/ \E c \in Callers : FutureResult(c)
    \/ Answers

SpecAnswers == Init /\ [][NextAnswers]_vars

\* the publish/subscribe half alone on an open transport
NextPubSub ==
    \/ CallerPubSub
    \/ \E c \in Callers : FutureResult(c)
    \/ ReaderPubSub

SpecPubSub == Init /\ [][NextPubSub]_vars

\* call, register, publish and Invocation on an open transport, with every
\* self.ws.send taken as two steps
NextSend ==
    \/ \E c \in Callers :
           \/ CallStart(c) \/ CallSendEnter(c) \/ CallSendReturn(c)
           \/ \E e \in Endpoints : RegisterStart(c, e)
           \/ RegisterSendEnter(c) \/ RegisterSendReturn(c)
           \/ \E o \in OptionValues : PublishStart(c, o)
           \/ PublishSendEnter(c) \/ PublishSendReturn(c)
           \/ FutureResult(c)
    \/ \E q \in ReqIds : RecvResult(q) \/ RecvPublished(q)
    \/ \E q \in ReqIds, r \in ResIds : RecvRegistered(q, r)
    \/ \E r \in ResIds : InvocationSendEnter(r)
    \/ InvocationSendReturn

SpecSend == Init /\ [][NextSend]_vars

\* ================================================================= claims
\* a Future resolved with a failure (Future.set_exception)
FailedFuture(e) == [state |-> "failed", error |-> e]

\* the threads whose Future is held by an entry of the six pending tables
PendingHolders ==
    {call_requests[q] : q \in DOMAIN call_requests}
    \cup {register_requests[q].future : q \in DOMAIN register_requests}
    \cup {unregister_requests[q].future : q \in DOMAIN unregister_requests}
    \cup {subscribe_requests[q].future : q \in DOMAIN subscribe_requests}
    \cup {unsubscribe_requests[q].future : q \in DOMAIN unsubscribe_requests}
    \cup {publish_requests[q] : q \in DOMAIN publish_requests}

\* the request ids of the six pending tables
PendingIds ==
    DOMAIN call_requests \cup DOMAIN register_requests \cup DOMAIN unregister_requests
    \cup DOMAIN subscribe_requests \cup DOMAIN unsubscribe_requests
    \cup DOMAIN publish_requests

\* the thread whose Future the pending entry of request id q holds
HolderOf(q) ==
    IF q \in DOMAIN call_requests THEN call_requests[q]
    ELSE IF q \in DOMAIN register_requests THEN register_requests[q].future
    ELSE IF q \in DOMAIN unregister_requests THEN unregister_requests[q].future
    ELSE IF q \in DOMAIN subscribe_requests THEN subscribe_requests[q].future
    ELSE IF q \in DOMAIN unsubscribe_requests THEN unsubscribe_requests[q].future
    ELSE publish_requests[q]

\* C1: every call() that has returned holds the Result whose request_id is the
\* request id of the Call this caller sent, and a call's Future is never
\* resolved with a Result carrying another request id.
CallReturnsOwnResult ==
    \A c \in Callers :
        op[c] = "call" =>
            /\ future[c].state = "done" => future[c].value = ResultMsg(rid[c])
            /\ pc[c] = "done" /\ result[c].type = "returned"
                   => result[c].value = ResultMsg(rid[c])

\* two calls in flight, the later one has returned its Result, the earlier
\* one is still waiting: the Results arrive out of order
CallReturnsOwnResultWitness ==
    \E c, d \in Callers :
        /\ op[c] = "call" /\ op[d] = "call" /\ rid[c] < rid[d]
        /\ pc[c] = "waiting" /\ future[c].state = "pending"
        /\ pc[d] = "done" /\ result[d] = Returned(ResultMsg(rid[d]))

\* C2: when the reader exits because the transport closed, the holder of
\* every caller that is waiting on an entry of the six pending tables has
\* been resolved with a ConnectionClosed failure.
ReaderDrainsOnClose ==
    [][(reader = "running" /\ reader' = "exited") =>
          \A c \in PendingHolders :
              (pc[c] = "waiting" /\ future[c].state = "pending")
                  => future'[c] = FailedFuture("ConnectionClosed")]_vars

\* the options ask for acknowledgement
RequestsAck(o) == ~o.isNone /\ <<"acknowledge", TRUE>> \in o.items

\* C3: publish() adds a publish-pending entry and waits for Published if and
\* only if its options request acknowledgement; with any other options it
\* leaves the publish-pending table unchanged and returns after the send.
PublishPendsIffAcknowledged ==
    [][\A c \in Callers :
          /\ \A o \in OptionValues :
                 PublishStart(c, o) =>
                     IF RequestsAck(o)
                     THEN NextId \in DOMAIN publish_requests'
                     ELSE publish_requests' = publish_requests
          /\ (PublishSend(c) /\ wsOpen) =>
                 (pc'[c] = "waiting" <=> RequestsAck(arg[c].options))]_vars

\* C4: dispatching the UnRegistered of a pending unregister request (sent for
\* an active registration) resolves the holder of that request.
UnregisteredResolvesHolder ==
    [][\A q \in ReqIds :
          (/\ q \in DOMAIN unregister_requests
           /\ unregister_requests[q].registration_id \in DOMAIN registrations
           /\ RecvUnRegistered(q))
              => future'[unregister_requests[q].future].state = "done"]_vars

\* C5 as stated: once register(p, f) has returned Registration r and while r
\* is registered, an Invocation for r (whose endpoint returns) invokes f once
\* and hands one Yield, the value f returned, to the transport.
InvocationReachesRegisteredEndpoint ==
    [][\A c \in Callers, r \in ResIds :
          (/\ op[c] = "register" /\ pc[c] = "done"
           /\ result[c] = Returned(Registration(r))
           /\ r \in DOMAIN registrations
           /\ RecvInvocation(r, "return"))
              => /\ invoked' = [invoked EXCEPT ![arg[c].endpoint] = @ + 1]
                 /\ sent' = sent (+) SetToBag({Yield(arg[c].endpoint)})]_vars

\* C5 amended: once register(p, f) has returned Registration r and while f is
\* the endpoint registered under r, an Invocation for r invokes f once and no
\* other endpoint; when f returns, one Yield, the value f returned, is handed
\* to the transport, and when f raises nothing is.
InvocationReachesInstalledEndpoint ==
    [][\A c \in Callers, r \in ResIds, o \in Outcomes :
          (/\ op[c] = "register" /\ pc[c] = "done"
           /\ result[c] = Returned(Registration(r))
           /\ r \in DOMAIN registrations
           /\ registrations[r] = arg[c].endpoint
           /\ RecvInvocation(r, o))
              => /\ invoked' = [invoked EXCEPT ![arg[c].endpoint] = @ + 1]
                 /\ sent' = IF o = "return"
                            THEN sent (+) SetToBag({Yield(arg[c].endpoint)})
                            ELSE sent]_vars

\* register(p, f) has returned r, f is registered under r, and an Invocation
\* for r has called f once and sent its Yield
InvocationReachesInstalledEndpointWitness ==
    \E c \in Callers, r \in ResIds :
        /\ op[c] = "register" /\ pc[c] = "done"
        /\ result[c] = Returned(Registration(r))
        /\ r \in DOMAIN registrations
        /\ registrations[r] = arg[c].endpoint
        /\ invoked[arg[c].endpoint] = 1
        /\ CopiesIn(Yield(arg[c].endpoint), sent) = 1
        /\ reader = "running"

ErrorFailsHolder ==
    [][\A q \in ReqIds :
          (q \in PendingIds /\ RecvError(q))
              => future'[HolderOf(q)] = FailedFuture("RemoteError")]_vars

\* C8: an endpoint that raises while the reader handles an Invocation or an
\* Event leaves the reader running.
EndpointErrorKeepsReader ==
    [][/\ \A r \in ResIds :
             (r \in DOMAIN registrations /\ RecvInvocation(r, "raise")) => reader' = "running"
       /\ \A s \in ResIds :
             (s \in DOMAIN subscriptions /\ RecvEvent(s, "raise")) => reader' = "running"]_vars

\* C9: unregister() with a registration id that is not in registrations, and
\* unsubscribe() with a subscription id that is not in subscriptions, fails
\* with UnknownResource.
UnknownResourceFails ==
    [][\A c \in Callers, r \in ResIds :
          /\ (r \notin DOMAIN registrations /\ UnregisterStart(c, r))
                 => pc'[c] = "done" /\ result'[c] = Raised("UnknownResource")
          /\ (r \notin DOMAIN subscriptions /\ UnsubscribeStart(c, r))
                 => pc'[c] = "done" /\ result'[c] = Raised("UnknownResource")]_vars

\* C10: an operation invoked after the transport has closed and the reader
\* has ended never waits, ends with ConnectionClosed and leaves no entry in a
\* pending table.
ClosedSessionRejects ==
    \A c \in Callers :
        (/\ startedClosed[c] /\ pc[c] \in {"waiting", "done"}
         /\ op[c] = "publish" => RequestsAck(arg[c].options))
            => /\ result[c] = Raised("ConnectionClosed")
               /\ rid[c] \notin PendingIds

\* C11: under any interleaving of the caller threads, an operation that
\* obtains its request id obtains one greater than every id any thread of the
\* session holds, so no two operations obtain the same id and the ids of one
\* thread strictly increase.
RequestIdsDistinctAndIncreasing ==
    [][\A c \in Callers :
          (pc[c] # "recorded" /\ pc'[c] = "recorded")
              => \A d \in Callers : rid'[c] > rid[d]]_vars

\* both threads have issued an operation, one after the other
RequestIdsDistinctAndIncreasingWitness ==
    \E c, d \in Callers : c # d /\ rid[c] = 1 /\ rid[d] = 2

\* the handler raised and left holders, results, tables and endpoints as they were
RaisesUnknownKey ==
    /\ reader' = "crashed"
    /\ UNCHANGED <<future, result, rpcTables, pubsubTables, invoked, sent>>

\* a response is dispatched whose request id is not in the pending table of
\* its kind
AbsentKeyResponse ==
    \E q \in ReqIds :
        \/ (q \notin DOMAIN call_requests /\ RecvResult(q))
        \/ (q \notin DOMAIN register_requests /\ \E r \in ResIds : RecvRegistered(q, r))
        \/ (q \notin DOMAIN unregister_requests /\ RecvUnRegistered(q))
        \/ (q \notin DOMAIN subscribe_requests /\ \E s \in ResIds : RecvSubscribed(q, s))
        \/ (q \notin DOMAIN unsubscribe_requests /\ RecvUnSubscribed(q))
        \/ (q \notin DOMAIN publish_requests /\ RecvPublished(q))

\* C12: a Future that is resolved is never resolved again, and a response
\* whose request id is no longer in the pending table of its kind (its entry
\* was already taken) raises: it resolves no holder, delivers nothing and
\* leaves all pending and active tables unchanged.
SecondResponseIsError ==
    [][/\ \A c \in Callers :
             future[c].state = "done"
                 => future'[c] = future[c] \/ (pc[c] = "done" /\ pc'[c] = "recorded")
       /\ AbsentKeyResponse => RaisesUnknownKey]_vars

\* the only request of the session, a call, was answered and then answered again
SecondResponseIsErrorWitness ==
    /\ nextId = 1
    /\ \E c \in Callers : op[c] = "call" /\ rid[c] = 1 /\ future[c] = ResolvedFuture(ResultMsg(1))
    /\ reader = "crashed"

\* C13: a message whose lookup key is absent (a request id that is not in the
\* pending table of its kind, or an Invocation or Event for a resource id that
\* is not active) leaves the reader running.
AbsentKeyKeepsReader ==
    [][/\ \A q \in ReqIds :
             /\ (q \notin DOMAIN call_requests /\ RecvResult(q)) => reader' = "running"
             /\ (q \notin DOMAIN register_requests /\ \E r \in ResIds : RecvRegistered(q, r))
                    => reader' = "running"
             /\ (q \notin DOMAIN unregister_requests /\ RecvUnRegistered(q)) => reader' = "running"
             /\ (q \notin DOMAIN subscribe_requests /\ \E s \in ResIds : RecvSubscribed(q, s))
                    => reader' = "running"
             /\ (q \notin DOMAIN unsubscribe_requests /\ RecvUnSubscribed(q))
                    => reader' = "running"
             /\ (q \notin DOMAIN publish_requests /\ RecvPublished(q)) => reader' = "running"
       /\ \A r \in ResIds :
             /\ (r \notin DOMAIN registrations /\ \E o \in Outcomes : RecvInvocation(r, o))
                    => reader' = "running"
             /\ (r \notin DOMAIN subscriptions /\ \E o \in Outcomes : RecvEvent(r, o))
                    => reader' = "running"]_vars

\* C14: a message of an unknown kind, or a frame that cannot be decoded, ends
\* the reader loop, and before the reader exits every pending holder is
\* resolved with ConnectionClosed.
FatalMessageDrains ==
    [][(RecvOther \/ RecvUndecodable)
          => /\ reader' # "running"
             /\ \A c \in PendingHolders :
                   (pc[c] = "waiting" /\ future[c].state = "pending")
                       => future'[c] = FailedFuture("ConnectionClosed")]_vars

\* the pending table in which an operation of kind o records its request
PendingTableOf(o) ==
    CASE o = "call" -> call_requests
      [] o = "register" -> register_requests
      [] o = "unregister" -> unregister_requests
      [] o = "subscribe" -> subscribe_requests
      [] o = "unsubscribe" -> unsubscribe_requests
      [] o = "publish" -> publish_requests
      [] OTHER -> EmptyDict

\* C15: when an operation that waits for a response hands its request to the
\* transport, the entry for its request id is already in the pending table of
\* its kind; and while the reader runs, a request that is still waiting for
\* its answer has its entry there (an unregister aside, whose Future no
\* answer resolves).
EntryRecordedBeforeSend ==
    [][\A c \in Callers :
          /\ (/\ pc[c] = "recorded" /\ pc'[c] # "recorded"
              /\ op[c] = "publish" => RequestsAck(arg[c].options))
                 => rid[c] \in DOMAIN PendingTableOf(op[c])
          /\ (/\ pc[c] = "waiting" /\ future[c] = PendingFuture
              /\ reader = "running" /\ op[c] # "unregister")
                 => rid[c] \in DOMAIN PendingTableOf(op[c])]_vars

\* a call and an acknowledged publish have both been handed to the transport
EntryRecordedBeforeSendWitness ==
    \E c, d \in Callers :
        /\ op[c] = "call" /\ pc[c] = "waiting"
        /\ op[d] = "publish" /\ pc[d] = "waiting" /\ RequestsAck(arg[d].options)
        /\ {rid[c], rid[d]} \subseteq SentIds

\* C16: dispatching Registered(request_id, registration_id) for a pending
\* register request removes the entry, installs that request's endpoint under
\* the registration id the server assigned and resolves the holder with a
\* Registration carrying that id; Subscribed does the same for a subscribe
\* request, the subscriptions table and a Subscription.
ConfirmationInstallsEndpoint ==
    [][\A q \in ReqIds, r \in ResIds :
          /\ (q \in DOMAIN register_requests /\ RecvRegistered(q, r))
                 => /\ q \notin DOMAIN register_requests'
                    /\ r \in DOMAIN registrations'
                    /\ registrations'[r] = register_requests[q].endpoint
                    /\ future'[register_requests[q].future] = ResolvedFuture(Registration(r))
          /\ (q \in DOMAIN subscribe_requests /\ RecvSubscribed(q, r))
                 => /\ q \notin DOMAIN subscribe_requests'
                    /\ r \in DOMAIN subscriptions'
                    /\ subscriptions'[r] = subscribe_requests[q].endpoint
                    /\ future'[subscribe_requests[q].future] = ResolvedFuture(Subscription(r))]_vars

\* a register and a subscribe have both been confirmed, under ids that differ
\* from their request ids
ConfirmationInstallsEndpointWitness ==
    \E c, d \in Callers, r, s \in ResIds :
        /\ op[c] = "register" /\ future[c] = ResolvedFuture(Registration(r)) /\ r # rid[c]
        /\ r \in DOMAIN registrations /\ registrations[r] = arg[c].endpoint
        /\ op[d] = "subscribe" /\ future[d] = ResolvedFuture(Subscription(s)) /\ s # rid[d]
        /\ s \in DOMAIN subscriptions /\ subscriptions[s] = arg[d].endpoint
        /\ register_requests = EmptyDict /\ subscribe_requests = EmptyDict

\* the dicts T and Tn agree on every key but k
SameExcept(T, Tn, k) ==
    \A x \in (DOMAIN T \cup DOMAIN Tn) \ {k} :
        x \in DOMAIN T /\ x \in DOMAIN Tn /\ T[x] = Tn[x]

\* no Future but those of the threads in S changes, and no thread moves
OnlyHolders(S) ==
    /\ \A c \in Callers \ S : future'[c] = future[c]
    /\ UNCHANGED <<pc, op, rid, arg, result>>

\* C17: dispatching the response to a pending request id q changes only the pending
\* entry of q in the table of the response's kind, the Future that entry
\* holds and the one active-table entry of the response's resource id; every
\* other pending entry, Future and active-table entry stays as it was.
ResponseChangesOnlyItsRequest ==
    [][\A q \in ReqIds :
          /\ (q \in DOMAIN call_requests /\ RecvResult(q))
                 => /\ SameExcept(call_requests, call_requests', q)
                    /\ OnlyHolders({call_requests[q]})
                    /\ UNCHANGED <<register_requests, registrations, unregister_requests,
                                   pubsubTables>>
          /\ \A r \in ResIds : (q \in DOMAIN register_requests /\ RecvRegistered(q, r))
                 => /\ SameExcept(register_requests, register_requests', q)
                    /\ SameExcept(registrations, registrations', r)
                    /\ OnlyHolders({register_requests[q].future})
                    /\ UNCHANGED <<call_requests, unregister_requests, pubsubTables>>
          /\ (q \in DOMAIN unregister_requests /\ RecvUnRegistered(q))
                 => /\ SameExcept(unregister_requests, unregister_requests', q)
                    /\ SameExcept(registrations, registrations',
                                  unregister_requests[q].registration_id)
                    /\ OnlyHolders({})
                    /\ UNCHANGED <<call_requests, register_requests, pubsubTables>>
          /\ \A s \in ResIds : (q \in DOMAIN subscribe_requests /\ RecvSubscribed(q, s))
                 => /\ SameExcept(subscribe_requests, subscribe_requests', q)
                    /\ SameExcept(subscriptions, subscriptions', s)
                    /\ OnlyHolders({subscribe_requests[q].future})
                    /\ UNCHANGED <<rpcTables, publish_requests, unsubscribe_requests>>
          /\ (q \in DOMAIN unsubscribe_requests /\ RecvUnSubscribed(q))
                 => /\ SameExcept(unsubscribe_requests, unsubscribe_requests', q)
                    /\ SameExcept(subscriptions, subscriptions',
                                  unsubscribe_requests[q].subscription_id)
                    /\ OnlyHolders({unsubscribe_requests[q].future})
                    /\ UNCHANGED <<rpcTables, publish_requests, subscribe_requests>>
          /\ (q \in DOMAIN publish_requests /\ RecvPublished(q))
                 => /\ SameExcept(publish_requests, publish_requests', q)
                    /\ OnlyHolders({publish_requests[q]})
                    /\ UNCHANGED <<rpcTables, subscribe_requests, subscriptions,
                                   unsubscribe_requests>>]_vars

\* one waiting thread has its answer while the other's request is still
\* pending, sent and unanswered
ResponseChangesOnlyItsRequestWitness ==
    \E c, d \in Callers :
        /\ c # d
        /\ pc[c] = "waiting" /\ future[c].state = "done" /\ rid[c] \notin PendingIds
        /\ pc[d] = "waiting" /\ future[d] = PendingFuture /\ rid[d] \in PendingIds
        /\ rid[d] \in SentIds /\ HolderOf(rid[d]) = d

\* C18: no pending entry is leaked: when the reader stops the six pending
\* tables are empty, an operation whose send fails leaves no entry behind,
\* and the entry of a request is gone once its answer, an Error included,
\* has been dispatched.
NoPendingEntryLeaks ==
    [][/\ (reader = "running" /\ reader' # "running") => PendingIds' = {}
       /\ \A c \in Callers :
             (pc[c] = "recorded" /\ result'[c] = Raised("ConnectionClosed"))
                 => rid[c] \notin PendingIds'
       /\ \A q \in ReqIds : (q \in PendingIds /\ RecvError(q)) => q \notin PendingIds']_vars

\* the caller threads that are inside self.ws.send
InSend == {c \in Callers : pc[c] = "sending"}

\* C19: at most one thread, caller or reader, is inside the transport's send
\* at any time.
SendsSerialized ==
    Cardinality(InSend) + (IF reader = "sending" THEN 1 ELSE 0) <= 1

====
